---- MODULE Spec2Model ----
(***************************************************************************)
(* Doc Scanner AI: the session state of the App component (src/App.tsx),   *)
(* its handlers, the assembly pipeline handleProcessImages with the        *)
(* cleanup calls it starts (cleanImage, src/unnamed/part_000) and the page *)
(* layout loop.                                                            *)
(*                                                                         *)
(* A React state variable holds the value last handed to its setter.  One  *)
(* action is one run-to-completion block of JavaScript (an event handler,  *)
(* or the continuation that runs when an awaited promise settles); the     *)
(* synchronous imageFiles.map of handleProcessImages is split per item     *)
(* (pc = "map"), and nothing else runs until it has finished.              *)
(***************************************************************************)
EXTENDS Integers, Sequences, FiniteSets, TLC

\* ------------------------------------------------------------- bounds
\* longest upload sequence explored
MaxFiles == 2
\* object URLs (URL.createObjectURL) handed out over the whole behaviour
MaxUrls == 5
\* largest reading of Date.now()
MaxTime == 0
\* longest sequence of cleaned results handed to the layout loop alone
MaxLayout == 3
\* longest filename typed into the filename field
MaxName == 5
\* most parts in the content of a response candidate
MaxParts == 2

\* ---------------------------------------------------------- constants
IDLE == "IDLE"
PROCESSING == "PROCESSING"
COMPLETE == "COMPLETE"
ERROR == "ERROR"
ProcessingState == {IDLE, PROCESSING, COMPLETE, ERROR}

\* null, and the empty string of a message field
Null == <<>>
Empty == <<>>

A4_WIDTH == 210
A4_HEIGHT == 297
MARGIN == 10
pageWidth == A4_WIDTH - MARGIN * 2
pageHeight == A4_HEIGHT - MARGIN * 2

\* file names the user can pick
Names == {"a.jpg", "b.jpg"}
\* intrinsic <<width, height>> a decoded image can have
Dims == {<<3, 2>>, <<1, 2>>}

VARIABLES
  imageFiles,       \* useState<ImageFile[]>
  processingState,  \* useState<ProcessingState>
  pdfUrl,           \* useState<string | null>
  progressMessage,  \* useState<string>
  errorMessage,     \* useState<string>
  showPdfPreview,   \* useState<boolean>
  pdfFilename,      \* useState<string>, a sequence of characters
  now,              \* last reading of Date.now()
  nextUrl,          \* number of object URLs created so far
  revoked,          \* revoked[k]: number of URL.revokeObjectURL calls on URL k
  pc,               \* position of the handleProcessImages invocation
  runFiles,         \* the imageFiles captured by that invocation's closure
  mapIdx,           \* next index of imageFiles.map (1-based)
  calls,            \* calls[i]: the cleanImage promise started for item i
  stale,            \* cleanImage promises of earlier sessions still pending
  firstFailed,      \* index of the call whose rejection rejected Promise.all, or 0
  invoked,          \* log of the cleanImage invocations of this invocation
  overtaken,        \* a call has settled while one started before it was pending
  cleanedImages,    \* the local cleanedImages, <<>> before Promise.all resolves
  doc,              \* pages of the jsPDF document, Null before new jsPDF
  layoutIdx,        \* index i of the layout loop (1-based)
  img,              \* the Image element the layout loop waits on
  op                \* the user handler that ran in the last step, or "none"

session == <<imageFiles, processingState, pdfUrl, progressMessage, errorMessage,
             showPdfPreview>>
browser == <<now, nextUrl, revoked>>
run == <<pc, runFiles, mapIdx, calls, firstFailed, invoked, overtaken,
         cleanedImages, doc, layoutIdx, img>>
vars == <<session, browser, run, stale, op, pdfFilename>>

\* ------------------------------------------------------------ helpers
BlobUrl(k) == <<"blob:", k>>
UrlIndex(u) == u[2]

Revoke(r, urls) == [k \in DOMAIN r |-> r[k] + Cardinality({j \in DOMAIN urls : UrlIndex(urls[j]) = k})]

SeqsUpTo(S, n) == UNION {[1..m -> S] : m \in 0..n}

NoImg == [src |-> Null, status |-> "none", width |-> 0, height |-> 0]

Pending(cs) == {i \in DOMAIN cs : cs[i].status = "pending"}
Rejected(cs) == {i \in DOMAIN cs : cs[i].status = "rejected"}
Fulfilled(cs) == {i \in DOMAIN cs : cs[i].status = "fulfilled"}

\* ------------------------------------------- cleanImage (part_000:28-102)
\* A thrown value: an Error instance with its message, or something else.
Thrown(isErr, msg) == [isError |-> isErr, message |-> msg]
NoError == Thrown(FALSE, Empty)

DataUri(inline) == <<"data:", inline.mimeType, ";base64,", inline.data>>

\* Array.prototype.find: the least index of the set of matching indices,
\* 0 for none
First(indices) ==
  IF indices = {} THEN 0
  ELSE CHOOSE i \in indices : \A j \in indices : i <= j

HasInlineData(part) == part.inlineData # Null
HasText(part) == part.text # ""

\* line 76: JSON.stringify of the safety ratings, the text of the array
\* between brackets
JSONStringify(ratings) == <<"[">> \o ratings \o <<"]">>

\* (mutant) the image is looked for before the finish reason is examined
ClassifyImageFirst(response) ==
  IF response.candidates = <<>>
  THEN [ok |-> FALSE, value |-> Null,
        error |-> Thrown(TRUE, <<"API response did not contain any candidates.">>)]
  ELSE
    LET candidate == response.candidates[1]
        parts == candidate.parts
        imageIdx == First({i \in DOMAIN parts : HasInlineData(parts[i])})
        textIdx == First({i \in DOMAIN parts : HasText(parts[i])})
    IN  IF imageIdx # 0
        THEN [ok |-> TRUE, value |-> DataUri(candidate.parts[imageIdx].inlineData),
              error |-> NoError]
        ELSE IF candidate.finishReason # "" /\ candidate.finishReason # "STOP"
        THEN [ok |-> FALSE, value |-> Null,
              error |-> Thrown(TRUE,
                 <<"Image generation stopped. Reason: ", candidate.finishReason, ".">>
                 \o (IF Len(candidate.safetyRatings) > 0
                     THEN <<" Safety Ratings: ", JSONStringify(candidate.safetyRatings)>>
                     ELSE <<>>))]
        ELSE IF textIdx # 0
        THEN [ok |-> FALSE, value |-> Null,
              error |-> Thrown(TRUE, <<"API returned text instead of an image: \"",
                                       candidate.parts[textIdx].text, "\"">>)]
        ELSE [ok |-> FALSE, value |-> Null,
              error |-> Thrown(TRUE,
                 <<"API did not return an image. The response was empty or malformed.">>)]

\* The body of the try block once the response is there (lines 69-93).
\* A candidate is [finishReason, safetyRatings, parts]; an absent
\* finishReason or text is "", absent safetyRatings or parts are <<>>.
ClassifyResponse(response) ==
  IF response.candidates = <<>>
  THEN [ok |-> FALSE, value |-> Null,
        error |-> Thrown(TRUE, <<"API response did not contain any candidates.">>)]
  ELSE
    LET candidate == response.candidates[1]
        parts == candidate.parts
        imageIdx == First({i \in DOMAIN parts : HasInlineData(parts[i])})
        textIdx == First({i \in DOMAIN parts : HasText(parts[i])})
    IN  IF candidate.finishReason # "" /\ candidate.finishReason # "STOP"
        THEN [ok |-> FALSE, value |-> Null,
              error |-> Thrown(TRUE,
                 <<"Image generation stopped. Reason: ", candidate.finishReason, ".">>
                 \o (IF Len(candidate.safetyRatings) > 0
                     THEN <<" Safety Ratings: ", JSONStringify(candidate.safetyRatings)>>
                     ELSE <<>>))]
        ELSE IF imageIdx # 0
        THEN [ok |-> TRUE, value |-> DataUri(candidate.parts[imageIdx].inlineData),
              error |-> NoError]
        ELSE IF textIdx # 0
        THEN [ok |-> FALSE, value |-> Null,
              error |-> Thrown(TRUE, <<"API returned text instead of an image: \"",
                                       candidate.parts[textIdx].text, "\"">>)]
        ELSE [ok |-> FALSE, value |-> Null,
              error |-> Thrown(TRUE,
                 <<"API did not return an image. The response was empty or malformed.">>)]

\* The try block (lines 29-94).  in.read is what fileToBase64 does with the
\* file: "ok", "parse" (lines 19-20: no mime type or no data) or "ioerror"
\* (line 23: rejects with the reader's error event, which is no Error);
\* in.response.apiError is the message of the Error generateContent rejects
\* with, "" when it resolves.
TryBody(in) ==
  IF in.read = "ioerror"
  THEN [ok |-> FALSE, value |-> Null, error |-> Thrown(FALSE, <<"error event">>)]
  ELSE IF in.read = "parse"
  THEN [ok |-> FALSE, value |-> Null,
        error |-> Thrown(TRUE, <<"Failed to parse base64 string from file.">>)]
  ELSE IF in.response.apiError # ""
  THEN [ok |-> FALSE, value |-> Null, error |-> Thrown(TRUE, <<in.response.apiError>>)]
  ELSE ClassifyResponse(in.response)

\* The catch block (lines 95-101): every failure is rethrown as an Error.
Rethrow(error) ==
  IF error.isError
  THEN Thrown(TRUE, <<"Failed to process image with AI. ">> \o error.message)
  ELSE Thrown(TRUE, <<"Failed to process image with AI. An unknown error occurred.">>)

\* The settled cleanImage promise.
cleanImage(in) ==
  LET r == TryBody(in)
  IN  IF r.ok THEN [status |-> "fulfilled", value |-> r.value]
      ELSE [status |-> "rejected", value |-> Rethrow(r.error)]

\* answer is the environment's answer the promise settled on
PendingCall == [status |-> "pending", value |-> Null, answer |-> Null]

\* Responses of the image service
Candidate(reason, ratings, parts) ==
  [finishReason |-> reason, safetyRatings |-> ratings, parts |-> parts]
ImagePart(data) == [inlineData |-> [mimeType |-> "image/png", data |-> data], text |-> ""]
TextPart(text) == [inlineData |-> Null, text |-> text]
Response(cands) == [apiError |-> "", candidates |-> cands]
Input(read, response) == [read |-> read, response |-> response]

\* What the environment can answer to one call in an assembly run: two
\* cleaned images, a response without candidate, a blocked generation, and
\* a file that cannot be read.
RunInputs ==
  { Input("ok", Response(<<Candidate("STOP", <<>>, <<ImagePart("d1")>>)>>)),
    Input("ok", Response(<<Candidate("", <<>>, <<TextPart("here"), ImagePart("d2")>>)>>)),
    Input("ok", Response(<<>>)),
    Input("ok", Response(<<Candidate("SAFETY", <<"HARM">>, <<ImagePart("d1")>>)>>)),
    Input("ioerror", Response(<<>>)) }


\* Every answer to one call: a file that is read or not, a request that
\* fails or answers, and responses without candidate or with a first
\* candidate of any finish reason, with or without safety ratings, whose
\* content is absent or has up to MaxParts parts, each an image, a text,
\* both or neither; a second candidate may follow.
FinishReasons == {"", "STOP", "SAFETY", "MAX_TOKENS"}
Ratings == {<<>>, <<"HARM">>}
Parts ==
  {ImagePart("d1"), ImagePart("d2"), TextPart("t1"), TextPart("t2"), TextPart(""),
   [inlineData |-> [mimeType |-> "image/jpeg", data |-> "d3"], text |-> "t3"]}
Candidates ==
  {Candidate(reason, ratings, parts) :
     reason \in FinishReasons, ratings \in Ratings, parts \in SeqsUpTo(Parts, MaxParts)}
AllInputs ==
  {Input("ok", Response(<<c>>)) : c \in Candidates}
  \cup {Input("ok", Response(<<c, Candidate("STOP", <<>>, <<ImagePart("d1")>>)>>)) :
          c \in {Candidate(reason, <<>>, <<>>) : reason \in FinishReasons}}
  \cup {Input("ok", Response(<<>>)),
        Input("ok", [apiError |-> "quota exceeded", candidates |-> <<>>]),
        Input("parse", Response(<<>>)),
        Input("ioerror", Response(<<>>))}


\* --------------------------------------------------- App (App.tsx:14-139)
\* line 17: 'scanned-documents'
DefaultFilename ==
  <<"s", "c", "a", "n", "n", "e", "d", "-", "d", "o", "c", "u", "m", "e", "n", "t", "s">>

Init ==
  /\ imageFiles = <<>>
  /\ processingState = IDLE
  /\ pdfUrl = Null
  /\ progressMessage = Empty
  /\ errorMessage = Empty
  /\ showPdfPreview = FALSE
  /\ now = 0
  /\ nextUrl = 0
  /\ revoked = [k \in 1..MaxUrls |-> 0]
  /\ pc = "idle"
  /\ runFiles = <<>>
  /\ mapIdx = 0
  /\ calls = <<>>
  /\ stale = 0
  /\ firstFailed = 0
  /\ invoked = <<>>
  /\ overtaken = FALSE
  /\ cleanedImages = <<>>
  /\ doc = Null
  /\ layoutIdx = 0
  /\ img = NoImg
  /\ op = "none"
  /\ pdfFilename = DefaultFilename

\* Which block of the page is rendered (lines 152, 214, 221): the file
\* input, the remove buttons and the Scan button exist only while IDLE, the
\* Start Over button only while COMPLETE or ERROR.
\* (mutant) the upload view is rendered in every state
IdleViewAlways == TRUE
IdleViewRendered == processingState = IDLE
\* (mutant) the Start Over button is rendered whenever the status is not IDLE
ResultViewWhileProcessing == processingState # IDLE
ResultViewRendered == processingState \in {COMPLETE, ERROR}

NewImageFile(name, t, k) ==
  [id |-> <<name, "-", t>>, file |-> [name |-> name],
   originalUrl |-> BlobUrl(k), cleanedUrl |-> Null]

\* lines 23-35; files is the FileList of the change event, t the reading of
\* Date.now()
handleFileChange(files, t) ==
  /\ IdleViewRendered
  /\ Len(imageFiles) + Len(files) <= MaxFiles
  /\ nextUrl + Len(files) < MaxUrls
  /\ t >= now
  /\ now' = t
  /\ nextUrl' = nextUrl + Len(files)
  /\ imageFiles' = imageFiles \o
       [k \in 1..Len(files) |-> NewImageFile(files[k], t, nextUrl + k)]
  /\ op' = "handleFileChange"
  /\ UNCHANGED pdfFilename
  /\ UNCHANGED <<processingState, pdfUrl, progressMessage, errorMessage,
                 showPdfPreview, revoked, run, stale>>

\* lines 37-43
removeImage(id) ==
  /\ IdleViewRendered
  /\ \E k \in DOMAIN imageFiles : imageFiles[k].id = id
  /\ LET OtherId(im) == im.id # id
         found == First({k \in DOMAIN imageFiles : imageFiles[k].id = id})
     IN  /\ revoked' = IF found # 0
                       THEN Revoke(revoked, <<imageFiles[found].originalUrl>>)
                       ELSE revoked
         /\ imageFiles' = SelectSeq(imageFiles, OtherId)
  /\ op' = "removeImage"
  /\ UNCHANGED pdfFilename
  /\ UNCHANGED <<processingState, pdfUrl, progressMessage, errorMessage,
                 showPdfPreview, now, nextUrl, run, stale>>

\* (mutant) the output URL is not revoked
ResetUrlsImagesOnly == [k \in DOMAIN imageFiles |-> imageFiles[k].originalUrl]
\* lines 46-47: the URLs startOver revokes, in order
ResetUrls ==
  [k \in DOMAIN imageFiles |-> imageFiles[k].originalUrl]
  \o (IF pdfUrl # Null THEN <<pdfUrl>> ELSE <<>>)

\* lines 45-54.  The handleProcessImages invocation has returned by the
\* time the button exists; its locals are dropped, and the cleanImage
\* promises it left pending are kept as a count.
startOver ==
  /\ ResultViewRendered
  /\ revoked' = Revoke(revoked, ResetUrls)
  /\ imageFiles' = <<>>
  /\ processingState' = IDLE
  /\ pdfUrl' = Null
  /\ progressMessage' = Empty
  /\ errorMessage' = Empty
  /\ showPdfPreview' = FALSE
  /\ stale' = stale + Cardinality(Pending(calls))
  /\ pc' = "idle"
  /\ runFiles' = <<>>
  /\ mapIdx' = 0
  /\ calls' = <<>>
  /\ firstFailed' = 0
  /\ invoked' = <<>>
  /\ overtaken' = FALSE
  /\ cleanedImages' = <<>>
  /\ doc' = Null
  /\ layoutIdx' = 0
  /\ img' = NoImg
  /\ op' = "startOver"
  /\ UNCHANGED pdfFilename
  /\ UNCHANGED <<now, nextUrl>>

\* (mutant) the validation of line 57 is missing
NeverEmptyUpload == FALSE
\* line 57
IsEmptyUpload == Len(imageFiles) = 0

\* lines 56-63: the synchronous head of handleProcessImages
handleProcessImages ==
  /\ IdleViewRendered
  /\ op' = "handleProcessImages"
  /\ UNCHANGED pdfFilename
  /\ IF IsEmptyUpload
     THEN /\ errorMessage' = <<"Please upload at least one image.">>
          /\ UNCHANGED <<imageFiles, processingState, pdfUrl, progressMessage,
                         showPdfPreview, browser, run, stale>>
     ELSE /\ processingState' = PROCESSING
          /\ errorMessage' = Empty
          /\ pc' = "map"
          /\ runFiles' = imageFiles
          /\ mapIdx' = 1
          /\ UNCHANGED <<imageFiles, pdfUrl, progressMessage, showPdfPreview,
                         browser, calls, firstFailed, invoked, overtaken,
                         cleanedImages, doc, layoutIdx, img, stale>>

\* (mutant) the position is not made 1-based
CleaningMessageZeroBased(index, n) == <<"Cleaning image ", index, " of ", n, "...">>
\* line 68; index is the 0-based index of Array.prototype.map
CleaningMessage(index, n) == <<"Cleaning image ", index + 1, " of ", n, "...">>

\* lines 67-71: the callback of imageFiles.map for one item, up to its
\* await: it sets the progress text and starts the cleanup call.  After
\* the last item Promise.all is awaited (line 73).
mapCallback ==
  /\ pc = "map"
  /\ mapIdx <= Len(runFiles)
  /\ progressMessage' = CleaningMessage(mapIdx - 1, Len(runFiles))
  /\ calls' = Append(calls, PendingCall)
  /\ invoked' = Append(invoked, [index |-> mapIdx, file |-> runFiles[mapIdx].file,
                                 progress |-> progressMessage'])
  /\ IF mapIdx = Len(runFiles)
     THEN pc' = "awaitAll" /\ mapIdx' = mapIdx
     ELSE pc' = "map" /\ mapIdx' = mapIdx + 1
  /\ op' = "none"
  /\ UNCHANGED pdfFilename
  /\ UNCHANGED <<imageFiles, processingState, pdfUrl, errorMessage, showPdfPreview,
                 browser, runFiles, firstFailed, overtaken, cleanedImages, doc,
                 layoutIdx, img, stale>>

\* ------------------------------------------ layout (App.tsx:76-126)
\* (mutant) the rescaling to the content height of lines 109-112 is missing
PlacementWidthOnly(imgWidth, imgHeight) ==
  [x |-> <<A4_WIDTH - pageWidth, 2>>,
   y |-> <<A4_HEIGHT * imgWidth - pageWidth * imgHeight, 2 * imgWidth>>,
   width |-> <<pageWidth, 1>>,
   height |-> <<pageWidth * imgHeight, imgWidth>>]
\* lines 102-115: the placed rectangle of an image of intrinsic size
\* imgWidth x imgHeight; every length is an exact fraction <<numerator,
\* denominator>>.  finalHeight = pageWidth / ratio exceeds pageHeight
\* exactly when pageWidth * imgHeight > pageHeight * imgWidth.
Placement(imgWidth, imgHeight) ==
  LET tooHigh == pageWidth * imgHeight > pageHeight * imgWidth
      finalWidth == IF tooHigh THEN <<pageHeight * imgWidth, imgHeight>>
                    ELSE <<pageWidth, 1>>
      finalHeight == IF tooHigh THEN <<pageHeight, 1>>
                     ELSE <<pageWidth * imgHeight, imgWidth>>
  IN  [x |-> <<A4_WIDTH * finalWidth[2] - finalWidth[1], 2 * finalWidth[2]>>,
       y |-> <<A4_HEIGHT * finalHeight[2] - finalHeight[1], 2 * finalHeight[2]>>,
       width |-> finalWidth, height |-> finalHeight]

\* the first index from i on whose cleanedUrl is truthy (line 93), or
\* Len(imgs) + 1
NextWithData(imgs, i) ==
  LET withData == {j \in i..Len(imgs) : imgs[j].cleanedUrl # Null}
  IN  IF withData = {} THEN Len(imgs) + 1 ELSE First(withData)

\* (mutant) setPdfUrl of line 123 is missing
FinishWithoutUrl ==
  /\ nextUrl' = nextUrl + 1
  /\ pdfUrl' = pdfUrl
  /\ processingState' = COMPLETE
  /\ progressMessage' = <<"Your PDF is ready!">>
  /\ showPdfPreview' = TRUE
  /\ pc' = "done"
\* lines 121-126
Finish ==
  /\ nextUrl' = nextUrl + 1
  /\ pdfUrl' = BlobUrl(nextUrl + 1)
  /\ processingState' = COMPLETE
  /\ progressMessage' = <<"Your PDF is ready!">>
  /\ showPdfPreview' = TRUE
  /\ pc' = "done"

\* lines 91-100 and 121-126: the loop from index i (1-based) with document
\* d, up to the next image it waits for, or to the end of the pipeline;
\* progress is the progress text if the pipeline does not end here.
LayoutFrom(imgs, d, i, progress) ==
  LET j == NextWithData(imgs, i)
  IN  /\ layoutIdx' = j
      /\ IF j <= Len(imgs)
         THEN /\ doc' = IF j > 1 THEN Append(d, <<>>) ELSE d
              /\ img' = [src |-> imgs[j].cleanedUrl, status |-> "loading",
                         width |-> 0, height |-> 0]
              /\ pc' = "decode"
              /\ progressMessage' = progress
              /\ UNCHANGED <<nextUrl, pdfUrl, processingState, showPdfPreview>>
         ELSE /\ doc' = d
              /\ img' = img
              /\ Finish

\* (mutant) the message of the error is not used
CatchMessageUnknown(error) == <<"An unknown error occurred.">>
\* lines 128-133: the catch block of handleProcessImages
CatchMessage(error) ==
  IF error.isError THEN error.message ELSE <<"An unknown error occurred.">>

Catch(error) ==
  /\ errorMessage' = CatchMessage(error)
  /\ processingState' = ERROR
  /\ pc' = "done"

\* (mutant) the results are paired with the items in reverse
AfterCleaningReversed(cs) ==
  LET cleaned == [k \in DOMAIN runFiles |->
                    [runFiles[k] EXCEPT !.cleanedUrl = cs[Len(cs) + 1 - k].value]]
  IN  /\ cleanedImages' = cleaned
      /\ imageFiles' = cleaned
      /\ LayoutFrom(cleaned, << <<>> >>, 1, <<"Generating PDF...">>)
\* lines 73-89: the continuation of Promise.all once every call of cs is
\* fulfilled
AfterCleaning(cs) ==
  LET cleaned == [k \in DOMAIN runFiles |-> [runFiles[k] EXCEPT !.cleanedUrl = cs[k].value]]
  IN  /\ cleanedImages' = cleaned
      /\ imageFiles' = cleaned
      /\ LayoutFrom(cleaned, << <<>> >>, 1, <<"Generating PDF...">>)

\* (mutant) a call can settle before the next one is started, as with an
\* await inside a for loop
CanSettleDuringMap == TRUE
\* No callback runs while the synchronous map of line 67 is executing.
CanSettle == pc # "map"

\* (mutant) a settling call is handled whether or not the joint promise has
\* overtaken, as with a try/catch around each call
JointAlwaysPending == TRUE
\* line 73: Promise.all has not settled yet, the handler is waiting for it
JointPending == pc = "awaitAll"

\* (mutant) the joint promise never rejects, as with Promise.allSettled
PromiseAllSettled(out) == FALSE
\* line 73: Promise.all rejects as soon as one of its promises rejects
PromiseAllRejects(out) == out.status = "rejected"

\* The cleanImage promise of item i settles, the environment having
\* answered in.  Promise.all (line 73) rejects with the first rejection and
\* resolves once all are fulfilled; after it has overtaken, a settling call
\* has no continuation left.
callSettles(i, in) ==
  /\ CanSettle
  /\ i \in Pending(calls)
  /\ op' = "none"
  /\ UNCHANGED pdfFilename
  /\ LET out == cleanImage(in)
         cs == [calls EXCEPT ![i] = [status |-> out.status, value |-> out.value,
                                     answer |-> in]]
     IN  /\ calls' = cs
         /\ overtaken' = (overtaken \/ \E j \in Pending(calls) : j < i)
         /\ IF JointPending /\ PromiseAllRejects(out)
            THEN /\ Catch(out.value)
                 /\ firstFailed' = i
                 /\ UNCHANGED <<imageFiles, pdfUrl, progressMessage, showPdfPreview,
                                browser, runFiles, mapIdx, invoked, cleanedImages,
                                doc, layoutIdx, img, stale>>
            ELSE IF JointPending /\ Pending(cs) = {}
            THEN /\ AfterCleaning(cs)
                 /\ UNCHANGED <<errorMessage, now, revoked, runFiles, mapIdx,
                                firstFailed, invoked, stale>>
            ELSE UNCHANGED <<session, browser, pc, runFiles, mapIdx, firstFailed,
                             invoked, cleanedImages, doc, layoutIdx, img, stale>>

\* A cleanImage promise left pending by an earlier session settles.
staleCallSettles ==
  /\ CanSettle
  /\ stale > 0
  /\ stale' = stale - 1
  /\ op' = "none"
  /\ UNCHANGED pdfFilename
  /\ UNCHANGED <<session, browser, run>>

\* lines 100-119: img.onload fires with the decoded size, the image is
\* placed, and the loop goes on; addImage may throw.
imgLoads(dim, addImageThrows) ==
  /\ pc = "decode"
  /\ img.status = "loading"
  /\ op' = "none"
  /\ UNCHANGED pdfFilename
  /\ IF addImageThrows
     THEN /\ Catch(Thrown(TRUE, <<"addImage: ", img.src>>))
          /\ img' = [img EXCEPT !.status = "loaded", !.width = dim[1], !.height = dim[2]]
          /\ UNCHANGED <<imageFiles, pdfUrl, progressMessage, showPdfPreview, browser,
                         runFiles, mapIdx, calls, firstFailed, invoked, overtaken,
                         cleanedImages, doc, layoutIdx, stale>>
     ELSE /\ LayoutFrom(cleanedImages,
                [doc EXCEPT ![Len(doc)] =
                   Append(@, [imgData |-> img.src, size |-> dim,
                              at |-> Placement(dim[1], dim[2])])],
                layoutIdx + 1, progressMessage)
          /\ UNCHANGED <<imageFiles, errorMessage, now, revoked, runFiles, mapIdx,
                         calls, firstFailed, invoked, overtaken, cleanedImages, stale>>

\* The image cannot be decoded: the error event has no handler (line 100
\* sets onload only), so the promise of line 100 stays pending.
imgFails ==
  /\ pc = "decode"
  /\ img.status = "loading"
  /\ img' = [img EXCEPT !.status = "broken"]
  /\ op' = "none"
  /\ UNCHANGED pdfFilename
  /\ UNCHANGED <<session, browser, pc, runFiles, mapIdx, calls, firstFailed,
                 invoked, overtaken, cleanedImages, doc, layoutIdx, stale>>

Next ==
  \/ \E files \in SeqsUpTo(Names, MaxFiles), t \in 0..MaxTime : handleFileChange(files, t)
  \/ \E name \in Names, t \in 0..MaxTime : removeImage(<<name, "-", t>>)
  \/ startOver
  \/ handleProcessImages
  \/ mapCallback
  \/ \E i \in DOMAIN calls, in \in RunInputs : callSettles(i, in)
  \/ staleCallSettles
  \/ \E dim \in Dims, addImageThrows \in BOOLEAN : imgLoads(dim, addImageThrows)
  \/ imgFails

Spec == Init /\ [][Next]_vars

\* The browser fires load or error for every image that is loading, and the
\* synchronous map runs to its end.
FairSpec == Spec /\ WF_vars(mapCallback) /\ WF_vars(imgFails \/ \E dim \in Dims, addImageThrows \in BOOLEAN : imgLoads(dim, addImageThrows))

\* ------------------------------------------- the output filename
\* characters the user can type
Chars == {"a", ".", "p", "d", "f"}
PdfSuffix == <<".", "p", "d", "f">>

\* String.prototype.endsWith
EndsWith(str, suffix) ==
  /\ Len(str) >= Len(suffix)
  /\ SubSeq(str, Len(str) - Len(suffix) + 1, Len(str)) = suffix

\* (mutant) the suffix is appended without looking at the name
AlwaysAppendSuffix(name) == name \o PdfSuffix
\* line 138
FinalPdfFilename(name) ==
  IF EndsWith(name, PdfSuffix) THEN name ELSE name \o PdfSuffix

\* lines 137-139: the memoized download filename
finalPdfFilename == FinalPdfFilename(pdfFilename)

\* line 203: the onChange handler of the filename field
setPdfFilename(name) ==
  /\ IdleViewRendered
  /\ pdfFilename' = name
  /\ op' = "setPdfFilename"
  /\ UNCHANGED <<session, browser, run, stale>>

\* Typing a filename reads and writes pdfFilename only, and only
\* finalPdfFilename reads it, so it is explored on its own.
FilenameNext == \E name \in SeqsUpTo(Chars, MaxName) : setPdfFilename(name)

FilenameSpec == Init /\ [][FilenameNext]_vars

\* ------------------------------------- one cleanup call on its own
\* The state after one file has been selected, the Scan button clicked and
\* the callback of map run for it: its call is pending (line 73).
CleanInit ==
  /\ imageFiles = <<NewImageFile("a.jpg", 0, 1)>>
  /\ processingState = PROCESSING
  /\ pdfUrl = Null
  /\ progressMessage = CleaningMessage(0, 1)
  /\ errorMessage = Empty
  /\ showPdfPreview = FALSE
  /\ now = 0
  /\ nextUrl = 1
  /\ revoked = [k \in 1..MaxUrls |-> 0]
  /\ pc = "awaitAll"
  /\ runFiles = imageFiles
  /\ mapIdx = 1
  /\ calls = <<PendingCall>>
  /\ stale = 0
  /\ firstFailed = 0
  /\ invoked = <<[index |-> 1, file |-> [name |-> "a.jpg"],
                  progress |-> CleaningMessage(0, 1)]>>
  /\ overtaken = FALSE
  /\ cleanedImages = <<>>
  /\ doc = Null
  /\ layoutIdx = 0
  /\ img = NoImg
  /\ op = "none"
  /\ pdfFilename = DefaultFilename

CleanNext == \E in \in AllInputs : callSettles(1, in)

CleanSpec == CleanInit /\ [][CleanNext]_vars

\* ------------------------------------- the layout loop on its own
\* The layout loop (lines 76-126) as a function of the cleanedImages it is
\* handed.  Line 93 provides for a null cleanedUrl, which no cleanImage call
\* of an assembly run produces, so the loop is also started here on every
\* sequence of null and non-null cleaned results.
CleanedUrls ==
  {Null} \cup {DataUri([mimeType |-> "image/png", data |-> d]) : d \in {"d1", "d2"}}
\* intrinsic sizes on both sides of, and on, the ratio pageWidth : pageHeight
LayoutDims == {<<3, 2>>, <<1, 2>>, <<190, 277>>, <<191, 277>>, <<190, 278>>}

CleanedSequence(urls) ==
  [k \in DOMAIN urls |-> [NewImageFile("a.jpg", 0, k) EXCEPT !.cleanedUrl = urls[k]]]

\* the state in which line 76 is reached with cleanedImages = CleanedSequence(urls)
LayoutInit ==
  \E urls \in SeqsUpTo(CleanedUrls, MaxLayout) \ {<<>>} :
    /\ cleanedImages = CleanedSequence(urls)
    /\ imageFiles = cleanedImages
    /\ runFiles = [k \in DOMAIN urls |-> NewImageFile("a.jpg", 0, k)]
    /\ calls = [k \in DOMAIN urls |->
                  [status |-> "fulfilled", value |-> urls[k], answer |-> Null]]
    /\ invoked = <<>>
    /\ overtaken = FALSE
    /\ mapIdx = Len(urls)
    /\ nextUrl = Len(urls)
    /\ processingState = PROCESSING
    /\ pdfUrl = Null
    /\ progressMessage = Empty
    /\ errorMessage = Empty
    /\ showPdfPreview = FALSE
    /\ now = 0
    /\ revoked = [k \in 1..MaxUrls |-> 0]
    /\ pc = "layout"
    /\ stale = 0
    /\ firstFailed = 0
    /\ doc = Null
    /\ layoutIdx = 0
    /\ img = NoImg
    /\ op = "none"
    /\ pdfFilename = DefaultFilename

\* lines 76-100: new jsPDF gives a document of one empty page, and the loop
\* runs up to its first wait
layoutStart ==
  /\ pc = "layout"
  /\ LayoutFrom(cleanedImages, << <<>> >>, 1, <<"Generating PDF...">>)
  /\ op' = "none"
  /\ UNCHANGED <<imageFiles, errorMessage, now, revoked, runFiles, mapIdx, calls,
                 firstFailed, invoked, overtaken, cleanedImages, stale,
                 pdfFilename>>

LayoutNext ==
  \/ layoutStart
  \/ \E dim \in LayoutDims, addImageThrows \in BOOLEAN : imgLoads(dim, addImageThrows)
  \/ imgFails

LayoutSpec == LayoutInit /\ [][LayoutNext]_vars

\* ================================================================ claims
InFlight == Pending(calls)

C3_InvokedOncePerItemInOrder ==
  /\ \A i \in DOMAIN invoked :
       /\ invoked[i].index = i
       /\ invoked[i].file = runFiles[i].file
       /\ invoked[i].progress = <<"Cleaning image ", i, " of ", Len(runFiles), "...">>
  /\ Len(invoked) = Len(calls)
  /\ (pc \in {"awaitAll", "decode", "done"} /\ Rejected(calls) = {})
       => Len(invoked) = Len(runFiles)

\* C3 witness: a run over two items completed without failure
C3_Witness ==
  /\ processingState = COMPLETE
  /\ Len(runFiles) = 2
  /\ Len(invoked) = 2
  /\ Fulfilled(calls) = {1, 2}

\* C4: in every reachable state the output reference pdfUrl is non-null if
\* and only if the status is Complete.
C4_OutputIffComplete == (pdfUrl # Null) <=> (processingState = COMPLETE)

\* C4 witness: a session is Complete and holds an unreleased output, after
\* resources handed out earlier have been released
C4_Witness ==
  /\ processingState = COMPLETE
  /\ pdfUrl # Null
  /\ revoked[UrlIndex(pdfUrl)] = 0
  /\ \E k \in DOMAIN revoked : k < UrlIndex(pdfUrl) /\ revoked[k] = 1

\* C5: the status starts at Idle and changes only Idle -> Processing (an
\* assembly request on a non-empty upload sequence), Processing ->
\* Complete, Processing -> Error, and Complete -> Idle or Error -> Idle (a
\* reset).
StatusStep ==
  \/ processingState' = processingState
  \/ /\ processingState = IDLE /\ processingState' = PROCESSING
     /\ op' = "handleProcessImages" /\ Len(imageFiles) > 0
  \/ processingState = PROCESSING /\ processingState' \in {COMPLETE, ERROR}
  \/ /\ processingState \in {COMPLETE, ERROR} /\ processingState' = IDLE
     /\ op' = "startOver"
C5_StatusTransitions == (processingState = IDLE) /\ [][StatusStep]_vars

\* C5 witness: a later session has ended in Error after an earlier one was
\* reset while calls of its run were outstanding
C5_Witness == processingState = ERROR /\ stale > 0

\* C6: whenever a step of an assembly run fails, a cleanup call or the
\* decoding or placement of a cleaned image, the session eventually leaves
\* Processing and reaches Error with the error text set; a failed step
\* never leaves the session in Processing forever.
StepFailed ==
  /\ processingState = PROCESSING
  /\ (Rejected(calls) # {} \/ img.status = "broken")
C6_FailureReachesError ==
  StepFailed ~> (processingState = ERROR /\ errorMessage # Empty)

\* C7: a reset releases the display URL of every upload item still in the
\* sequence and the output resource if there is one; no resource is ever
\* released twice, and none held by the session has been released; after
\* the reset the status is Idle, the upload sequence is empty and the
\* output reference, progress text and error text are cleared.
Held ==
  {UrlIndex(imageFiles[i].originalUrl) : i \in DOMAIN imageFiles}
  \cup (IF pdfUrl # Null THEN {UrlIndex(pdfUrl)} ELSE {})
ResetStep ==
  op' = "startOver" =>
    /\ \A k \in Held : revoked[k] = 0 /\ revoked'[k] = 1
    /\ \A k \in DOMAIN revoked \ Held : revoked'[k] = revoked[k]
    /\ processingState' = IDLE
    /\ imageFiles' = <<>>
    /\ pdfUrl' = Null
    /\ progressMessage' = Empty
    /\ errorMessage' = Empty
C7_ResetReleasesOnce ==
  /\ [](\A k \in DOMAIN revoked : revoked[k] <= 1)
  /\ [](\A k \in Held : revoked[k] = 0)
  /\ [][ResetStep]_vars

\* C7 witness: a reset has just acted, and each of the four URLs handed out
\* so far has been released exactly once
C7_Witness ==
  /\ op = "startOver"
  /\ nextUrl = 4
  /\ \A k \in 1..4 : revoked[k] = 1

\* C8: while the status is Processing the upload sequence keeps the same
\* items in the same order; only the items' cleaned results may change.
Items(imgs) == [k \in DOMAIN imgs |-> <<imgs[k].id, imgs[k].file, imgs[k].originalUrl>>]
C8_UploadsFrozenWhileProcessing ==
  [][(processingState = PROCESSING \/ processingState' = PROCESSING)
       => Items(imageFiles') = Items(imageFiles)]_vars

\* C8 witness: the layout is waiting for the second image, the cleaned
\* results of both items having been stored
C8_Witness ==
  /\ processingState = PROCESSING
  /\ pc = "decode"
  /\ layoutIdx = 2
  /\ \A k \in DOMAIN imageFiles : imageFiles[k].cleanedUrl # Null

\* C9: an assembly request made while the upload sequence is empty invokes
\* neither the cleanup nor the layout collaborator, leaves the status at
\* Idle and the upload sequence and output reference unchanged, and sets a
\* non-empty validation message.
EmptyRequestStep ==
  (op' = "handleProcessImages" /\ Len(imageFiles) = 0) =>
    /\ processingState = IDLE /\ processingState' = IDLE
    /\ UNCHANGED <<invoked, calls, doc, pc, imageFiles, pdfUrl>>
    /\ pc = "idle"
    /\ errorMessage' # Empty
C9_EmptyRequestRejected == [][EmptyRequestStep]_vars

\* C9 witness: the validation message is shown after a request on an empty
\* upload sequence
C9_Witness ==
  /\ op = "handleProcessImages"
  /\ imageFiles = <<>>
  /\ processingState = IDLE
  /\ errorMessage = <<"Please upload at least one image.">>

\* C10: once a cleanup call of a run has failed, the run produces no
\* output: the layout collaborator is not invoked, no output reference is
\* set, the status is Error and never Complete, and every upload item's
\* cleaned result is still null.
C10_NoOutputAfterFailure ==
  Rejected(calls) # {} =>
    /\ doc = Null
    /\ cleanedImages = <<>>
    /\ pdfUrl = Null
    /\ processingState = ERROR
    /\ \A k \in DOMAIN imageFiles : imageFiles[k].cleanedUrl = Null

\* C10 witness: the run ended in Error by the failure of call 2 while call
\* 1 had succeeded
C10_Witness ==
  /\ processingState = ERROR
  /\ firstFailed = 2
  /\ calls[1].status = "fulfilled"
  /\ imageFiles[1].cleanedUrl = Null

\* the number of pages of the finished document, and the number of
\* cleaned results that are not null
NonNull(imgs) == {k \in DOMAIN imgs : imgs[k].cleanedUrl # Null}
LayoutDone == pc = "done" /\ processingState = COMPLETE

RatEq(a, b) == a[1] * b[2] = b[1] * a[2]
RatLe(a, b) == a[1] * b[2] <= b[1] * a[2]
RatAdd(a, b) == <<a[1] * b[2] + b[1] * a[2], a[2] * b[2]>>
\* the images placed on the pages of the document so far
Placed == UNION {{doc[p][q] : q \in DOMAIN doc[p]} : p \in DOMAIN doc}

\* C12: an image of intrinsic size w x h with w/h >= 190/277 is placed
\* 190 wide and 190*h/w high, one with w/h < 190/277 is placed 277 high
\* and 277*w/h wide; either way the rectangle keeps the ratio w:h, is no
\* larger than 190 x 277, and is centred on the 210 x 297 page, so it lies
\* inside the 10-unit margins.
C12_PlacementFitsAndCentres ==
  \A e \in Placed :
    LET w == e.size[1]
        h == e.size[2]
        W == e.at.width
        H == e.at.height
    IN  /\ w * 277 >= 190 * h => RatEq(W, <<190, 1>>) /\ RatEq(H, <<190 * h, w>>)
        /\ w * 277 < 190 * h => RatEq(H, <<277, 1>>) /\ RatEq(W, <<277 * w, h>>)
        /\ W[1] * H[2] * h = H[1] * W[2] * w
        /\ RatLe(W, <<190, 1>>) /\ RatLe(H, <<277, 1>>)
        /\ RatEq(e.at.x, <<210 * W[2] - W[1], 2 * W[2]>>)
        /\ RatEq(e.at.y, <<297 * H[2] - H[1], 2 * H[2]>>)
        /\ RatLe(<<10, 1>>, e.at.x) /\ RatLe(RatAdd(e.at.x, W), <<200, 1>>)
        /\ RatLe(<<10, 1>>, e.at.y) /\ RatLe(RatAdd(e.at.y, H), <<287, 1>>)

\* C12 witness: a finished document holds an image fitted to the content
\* width, one fitted to the content height and one of exactly the content
\* ratio
C12_Witness ==
  /\ LayoutDone
  /\ \E e1, e2, e3 \in Placed :
       /\ e1.size = <<3, 2>> /\ RatEq(e1.at.width, <<190, 1>>)
       /\ e2.size = <<1, 2>> /\ RatEq(e2.at.height, <<277, 1>>)
       /\ e3.size = <<190, 277>>

\* the last four characters of name are ".pdf"
HasPdfSuffix(name) ==
  /\ Len(name) >= 4
  /\ name[Len(name) - 3] = "." /\ name[Len(name) - 2] = "p"
  /\ name[Len(name) - 1] = "d" /\ name[Len(name)] = "f"

\* C13: the download filename is the entered name if that ends in ".pdf"
\* and the entered name followed by ".pdf" otherwise; it always ends in
\* ".pdf", at most one suffix is appended, and applying the rule to its
\* own output changes nothing.
C13_FilenameSuffixOnce ==
  /\ HasPdfSuffix(pdfFilename) => finalPdfFilename = pdfFilename
  /\ ~HasPdfSuffix(pdfFilename) =>
       finalPdfFilename = pdfFilename \o <<".", "p", "d", "f">>
  /\ HasPdfSuffix(finalPdfFilename)
  /\ FinalPdfFilename(finalPdfFilename) = finalPdfFilename

\* C13 witness: a typed name that already ends in ".pdf" is kept as it is
C13_Witness ==
  /\ op = "setPdfFilename"
  /\ pdfFilename = <<"a", ".", "p", "d", "f">>
  /\ finalPdfFilename = pdfFilename

\* the cleaned image the environment's answer carries: the first inline
\* image of the first candidate
AnswerImage(in) ==
  LET parts == in.response.candidates[1].parts
      k == CHOOSE k \in DOMAIN parts :
             /\ parts[k].inlineData # Null
             /\ \A j \in 1..(k - 1) : parts[j].inlineData = Null
  IN  <<"data:", parts[k].inlineData.mimeType, ";base64,", parts[k].inlineData.data>>

\* C14: when a run is Complete, the document has one page per uploaded
\* item, page k carries the cleaned image of item k, the items are the
\* uploaded ones in upload order, and the cleaned image of item k is the
\* one the k-th cleanup call (started for item k) returned, whatever the
\* order in which the calls completed.
C14_PagesInUploadOrder ==
  processingState = COMPLETE =>
    /\ Items(imageFiles) = Items(runFiles)
    /\ Len(doc) = Len(imageFiles)
    /\ Len(calls) = Len(imageFiles)
    /\ \A k \in DOMAIN imageFiles :
         /\ invoked[k].file = imageFiles[k].file
         /\ calls[k].status = "fulfilled"
         /\ imageFiles[k].cleanedUrl = calls[k].value
         /\ imageFiles[k].cleanedUrl = AnswerImage(calls[k].answer)
         /\ Len(doc[k]) = 1
         /\ doc[k][1].imgData = imageFiles[k].cleanedUrl

\* C14 witness: a Complete run of two items whose calls returned different
\* images, the call of the second item having completed first
C14_Witness ==
  /\ processingState = COMPLETE
  /\ Len(doc) = 2
  /\ overtaken
  /\ calls[1].value # calls[2].value
  /\ doc[1][1].imgData = calls[1].value
  /\ doc[2][1].imgData = calls[2].value

\* the items of imgs, as a set (two items never share a display URL)
ItemSet(imgs) == {imgs[k] : k \in DOMAIN imgs}

\* C15: a removal while Idle takes exactly one item out of the upload
\* sequence, releases the display URL of every item that leaves once and
\* of no item that stays, keeps the remaining items in their order, and
\* leaves the status and the output reference unchanged.
C15_RemovalReleasesWhatLeaves ==
  [][op' = "removeImage" =>
       LET leaving == ItemSet(imageFiles) \ ItemSet(imageFiles')
           Stays(im) == im \notin leaving
       IN  /\ Cardinality(leaving) = 1
           /\ imageFiles' = SelectSeq(imageFiles, Stays)
           /\ \A k \in DOMAIN imageFiles :
                revoked'[UrlIndex(imageFiles[k].originalUrl)] =
                  revoked[UrlIndex(imageFiles[k].originalUrl)]
                  + (IF imageFiles[k] \in leaving THEN 1 ELSE 0)
           /\ UNCHANGED <<processingState, pdfUrl>>]_vars

\* x is one of the pieces of message msg
InMessage(msg, x) == \E k \in DOMAIN msg : msg[k] = x

\* C16: a cleanup call whose file was read and whose request was answered
\* returns a data URI exactly when the response has a first candidate with
\* an absent or STOP finish reason and an image part, and the URI is built
\* from the first image part.  Otherwise it fails, by priority: without
\* candidate, with the no-candidates message; with a finish reason other
\* than STOP, with a message holding the reason and, if there are any, the
\* safety ratings, even when an image part is there; without image but with
\* a text part, with a message quoting the first text; with neither, with
\* the generic malformed-response message.  A call whose file could not be
\* read or whose request failed fails too.
C16_ClassificationPriority ==
  \A i \in DOMAIN calls :
    calls[i].status # "pending" =>
      LET in == calls[i].answer
          cands == in.response.candidates
          answered == in.read = "ok" /\ in.response.apiError = ""
          c == cands[1]
          images == {k \in DOMAIN c.parts : c.parts[k].inlineData # Null}
          texts == {k \in DOMAIN c.parts : c.parts[k].text # ""}
          normal == c.finishReason \in {"", "STOP"}
          fulfilled == calls[i].status = "fulfilled"
          msg == calls[i].value.message
      IN  /\ fulfilled <=> (answered /\ cands # <<>> /\ normal /\ images # {})
          /\ fulfilled =>
               \E k \in images :
                 /\ \A j \in images : k <= j
                 /\ calls[i].value = <<"data:", c.parts[k].inlineData.mimeType,
                                       ";base64,", c.parts[k].inlineData.data>>
          /\ ~fulfilled => calls[i].status = "rejected"
          /\ (~fulfilled /\ answered) => msg[1] = "Failed to process image with AI. "
          /\ (answered /\ cands = <<>>) =>
               msg = <<"Failed to process image with AI. ",
                       "API response did not contain any candidates.">>
          /\ (answered /\ cands # <<>> /\ ~normal) =>
               /\ msg[2] = "Image generation stopped. Reason: "
               /\ msg[3] = c.finishReason
               /\ c.safetyRatings # <<>> =>
                    /\ Len(msg) = 6
                    /\ msg[6] = <<"[">> \o c.safetyRatings \o <<"]">>
               /\ c.safetyRatings = <<>> => Len(msg) = 4
          /\ (answered /\ cands # <<>> /\ normal /\ images = {} /\ texts # {}) =>
               \E k \in texts :
                 /\ \A j \in texts : k <= j
                 /\ msg = <<"Failed to process image with AI. ",
                            "API returned text instead of an image: \"",
                            c.parts[k].text, "\"">>
          /\ (answered /\ cands # <<>> /\ normal /\ images = {} /\ texts = {}) =>
               msg = <<"Failed to process image with AI. ",
                       "API did not return an image. The response was empty or malformed.">>

\* C16 witness: a call answered with a blocked generation that carries an
\* image part has failed with the reason and the safety ratings
C16_Witness ==
  /\ calls # <<>>
  /\ calls[1].status = "rejected"
  /\ calls[1].answer =
       Input("ok", Response(<<Candidate("SAFETY", <<"HARM">>,
                                        <<TextPart("t1"), ImagePart("d2")>>)>>))
  /\ InMessage(calls[1].value.message, "SAFETY")
  /\ processingState = ERROR

\* a cleanup call settles whose run has ended: a call of the invocation
\* that has returned, or a call left pending by an earlier session
LateSettleStep ==
  /\ op' = "none"
  /\ \/ pc = "done" /\ calls' # calls
     \/ stale' < stale

\* C17: the completion or failure of a cleanup call whose run has ended
\* changes neither the status, the error text, the output reference nor
\* the upload sequence, before a reset, after it, and during a later run.
C17_LateSettlementsIgnored ==
  [][LateSettleStep =>
       UNCHANGED <<processingState, errorMessage, pdfUrl, imageFiles>>]_vars

\* C17 witness: the call of the second item has failed after the failure of
\* the first one ended the run, and the error text is still the first one's
C17_Witness ==
  /\ processingState = ERROR
  /\ pc = "done"
  /\ firstFailed = 1
  /\ ~overtaken
  /\ Len(calls) = 2
  /\ calls[2].status = "rejected"
  /\ errorMessage = calls[1].value.message
  /\ errorMessage # calls[2].value.message

====
